---- MODULE Spec2Model ----
(***************************************************************************)
(* PvP wheel: the contribution ledger (the PL/pgSQL functions              *)
(* add_gifts_to_game and recalculate_game_chances over the tables of the   *)
(* schema script) and the round resolution of the browser clients          *)
(* (getCurrentGame, spinWheel, completeGame).                              *)
(*                                                                         *)
(* The ledger is a PostgreSQL database at its default isolation level,     *)
(* READ COMMITTED.  Every RPC call is one transaction; every SQL statement *)
(* of the function body is one step.  A statement reads the rows that are  *)
(* committed when it runs plus the rows its own transaction wrote; a row   *)
(* written by a transaction stays locked until that transaction commits or *)
(* rolls back, and a statement that has to write a row another             *)
(* transaction has locked waits for it.  Every REST call of a client is a  *)
(* transaction of one statement.                                           *)
(*                                                                         *)
(* Modelling conventions.                                                  *)
(*  - numeric values are counted in hundredths of a TON (0.01 TON = 1).    *)
(*  - chance_percentage is kept as the exact fraction num/den (in percent) *)
(*    so that no rounding of the numeric division enters the checks.       *)
(*  - NULL for an id or a timestamp is 0.                                  *)
(*  - the locals v_current_gift_value and v_current_gifts_array keep their *)
(*    declared initial values 0 and '{}' when the participant lookup finds *)
(*    no row, and the conflict target (game_participant_id, gift_id) of    *)
(*    the upsert is taken to be backed by a unique index.                  *)
(*  - a client is the WheelGame component with the useGameDatabase hook of *)
(*    src/hooks, logged in as one player.  Its getCurrentGame(rollNumber)  *)
(*    at start-up is behind "if (dbPlayer)", and initializePlayer of that  *)
(*    hook returns nothing, so games are created by getCurrentGame(        *)
(*    rollNumber + 1) at the end of a spin only.                           *)
(*  - a change of the participants of a game reaches the subscribed        *)
(*    clients in the step that commits it; the change of a game to         *)
(*    completed is delivered in a step of its own.                         *)
(*  - one client runs one call at a time: it starts no spin, join or load  *)
(*    while the timeout callback of its spin is in flight.                 *)
(*  - lib/supabase.ts holds two versions of dbHelpers.  completeGame is    *)
(*    the version that archives the game in match_history; the history     *)
(*    read is the version whose result loadMatchHistory of the hook        *)
(*    formats (the query on games).                                        *)
(*  - a select without ORDER BY returns its rows in any order.             *)
(***************************************************************************)
EXTENDS Integers, Sequences, FiniteSets, TLC

\* ------------------------------------------------------------------ bounds
NumPlayers == 2
NumGifts == 1
MaxCalls == 2
MaxQty == 2
MaxSel == 1
InitQty == 2
MaxTicks == 1
TickSeconds == 61
MaxLocal == 2
MaxSpins == 3
MaxGames == 3
MaxRoster == 3
MaxValue == 2
\* requests of one client that are outstanding at a time
MaxInflight == 2
\* the largest limit of a history read
MaxLimit == 2
\* the longest countdown that is started
MaxDuration == 6
RoundQty == 1

\* ------------------------------------------------------- program constants
CountdownSeconds == 60
FirstRoll == 8343
MaxWheelPlayers == 15
LogLimit == 20

Players == 1..NumPlayers
Gifts == 1..NumGifts
Txns == 1..MaxCalls

\* gifts.base_value of the seeded gift types, in hundredths of a TON
base_value(gift) == IF gift = 1 THEN 1 ELSE IF gift = 2 THEN 5 ELSE IF gift = 3 THEN 10 ELSE 50

VARIABLES
  games,                   \* public.games: game id -> row
  game_participants,       \* public.game_participants: <<game, player>> -> row
  player_gifts,            \* public.player_gifts: <<player, gift>> -> quantity
  game_participant_gifts,  \* public.game_participant_gifts: <<game, player, gift>> -> row
  game_logs,               \* public.game_logs, in insertion order
  match_history,           \* public.match_history, in insertion order
  now,                     \* the database clock, in seconds
  txn,                     \* the add_gifts_to_game calls: call id -> transaction state
  client                   \* the browser clients: player id -> state of its WheelGame

vars == <<games, game_participants, player_gifts, game_participant_gifts,
          game_logs, match_history, now, txn, client>>

\* ------------------------------------------------------------------ helpers
RECURSIVE GCD(_, _)
GCD(a, b) == IF b = 0 THEN a ELSE GCD(b, a % b)

RECURSIVE SumF(_, _)
SumF(f, S) == IF S = {} THEN 0
              ELSE LET x == CHOOSE y \in S : TRUE IN f[x] + SumF(f, S \ {x})

RECURSIVE Repeat(_, _)
Repeat(x, n) == IF n <= 0 THEN << >> ELSE <<x>> \o Repeat(x, n - 1)

Merge(c, w) == [k \in (DOMAIN c) \cup (DOMAIN w) |-> IF k \in DOMAIN w THEN w[k] ELSE c[k]]

EmptyMap == [k \in {} |-> 0]

\* (gp.gift_value / v_total_pot_value) * 100, as an exact fraction
Percentage(value, total) ==
  IF total > 0
  THEN LET d == GCD(value * 100, total)
       IN [num |-> (value * 100) \div d, den |-> total \div d]
  ELSE [num |-> 0, den |-> 1]

\* a row of public.games as the insert of getCurrentGame leaves it
NewGame(roll) ==
  [roll_number |-> roll, status |-> "waiting", total_pot_balance |-> 0,
   total_players |-> 0, winner_player_id |-> 0, countdown_ends_at |-> 0]

\* ------------------------------------------------ inputs of add_gifts_to_game
\* one element of p_gift_selections: { giftId, quantity, totalValue }
Selections ==
  [giftId : Gifts, quantity : 1..MaxQty, totalValue : 0..(MaxQty * base_value(NumGifts))]

HonestSelections == {s \in Selections : s.totalValue = s.quantity * base_value(s.giftId)}

RECURSIVE ListsUpTo(_, _)
ListsUpTo(S, n) ==
  IF n = 0 THEN {<< >>}
  ELSE LET shorter == ListsUpTo(S, n - 1)
       IN shorter \cup {Append(l, x) : l \in {m \in shorter : Len(m) = n - 1}, x \in S}

\* p_player_name, p_player_color, p_player_position as the client of user n sends
\* them when it sees n - 1 players: its user name, COLORS[n - 1] and n - 1
Profile(n) == [name |-> n, color |-> n - 1, position |-> n - 1]

Profiles == {Profile(n) : n \in Players}

\* ------------------------------------------------------------------ clients
\* The WheelGame component of the client that player p is logged in with, and
\* the state of its useGameDatabase hook.  pc is the position of the client in
\* spinWheel and its timeout callback ("idle": isSpinning is false and no call
\* of the callback is in flight); spin holds what the callback closed over.
\* load says that the effect that loads the current game has yet to run, evt
\* that a change of the subscribed game to completed has yet to be delivered.
\* Where the reloads of the participants are followed request by request,
\* delivered counts the change notifications of the current game that the
\* client has received, and inflight holds the responses of the
\* getGameParticipants requests that have not arrived yet; intervals are the
\* timers of setInterval that have not been cleared and countdownIntervalRef is
\* the timer the ref of the countdown effect holds (0: null); logsDelivered and
\* logsInflight are the same for the log notifications and getGameLogs.
\* historyError records that completeGame of this spin has thrown.
NoSpin ==
  [gameId |-> 0, rollNumber |-> 0, winner |-> 0, winnerChance |-> Percentage(0, 0),
   totalGiftValue |-> 0, participants |-> {}, historyError |-> FALSE]

\* the values null and undefined of a number | null state of the hook
Null == 0 - 1

Undefined == 0 - 2

\* game.countdown_seconds of a games row: the table has no such column
countdown_seconds(game) == Undefined

NewClient ==
  [pc |-> "idle", load |-> TRUE, evt |-> FALSE,
   currentGameId |-> 0, dbPlayers |-> << >>, players |-> << >>,
   rollNumber |-> FirstRoll, spin |-> NoSpin, gameCountdown |-> Null,
   delivered |-> 0, inflight |-> {},
   dbGameLogs |-> << >>, logsDelivered |-> 0, logsInflight |-> {},
   matchHistory |-> << >>,
   intervals |-> {}, countdownIntervalRef |-> 0]

\* ------------------------------------------------------------ transactions
\* Besides the arguments and the locals of the function a call records, for the
\* properties only: whether the session was closed when the call arrived
\* (closed_at_call), whether a selection asked for more units than the player
\* held (short), the participant's value the lookup found (prior), the calls
\* that were in progress when it arrived (overlaps) and the number of
\* participants the session had when it arrived (joined_at_call).
IdleTxn ==
  [pc |-> "idle", result |-> "none", err |-> "none",
   g |-> 0, p |-> 0, sels |-> << >>, name |-> 0, color |-> 0, position |-> 0,
   start |-> 0, v_game_participant_id |-> 0,
   closed_at_call |-> FALSE, short |-> FALSE, prior |-> 0, overlaps |-> {},
   joined_at_call |-> 0,
   v_current_gift_value |-> 0, v_current_gifts_array |-> << >>, i |-> 1,
   v_total_pot_value |-> 0, v_total_players |-> 0, targets |-> {},
   w_part |-> EmptyMap, w_inv |-> EmptyMap, w_gpg |-> EmptyMap]

Running(t) == txn[t].pc \notin {"idle", "done"}

\* what a statement of transaction t reads
VisParts(t) == Merge(game_participants, txn[t].w_part)
VisInv(t) == Merge(player_gifts, txn[t].w_inv)
VisGpg(t) == Merge(game_participant_gifts, txn[t].w_gpg)

PartsOf(parts, g) == {k \in DOMAIN parts : k[1] = g}

\* row locks held by the other open transactions
PartLocked(t, k) == \E u \in Txns \ {t} : Running(u) /\ k \in DOMAIN txn[u].w_part
InvLocked(t, k) == \E u \in Txns \ {t} : Running(u) /\ k \in DOMAIN txn[u].w_inv
GpgLocked(t, k) == \E u \in Txns \ {t} : Running(u) /\ k \in DOMAIN txn[u].w_gpg

\* the transaction is over: its writes and locals are gone, its arguments stay
Ended(r, res, e) ==
  [IdleTxn EXCEPT !.pc = "done", !.result = res, !.err = e,
                  !.g = r.g, !.p = r.p, !.sels = r.sels,
                  !.closed_at_call = r.closed_at_call, !.short = r.short,
                  !.prior = r.prior, !.overlaps = r.overlaps,
                  !.joined_at_call = r.joined_at_call]

AfterLoop(i, sels) == IF i > Len(sels) THEN "update_participant" ELSE "loop"

\* a session is open for joins while it waits and its deadline has not passed
Open(game) ==
  /\ game.status = "waiting"
  /\ game.countdown_ends_at = 0 \/ now <= game.countdown_ends_at

\* the RPC arrives and runs the participant lookup
AddGiftsCall(t, g, p, sels, prof) ==
  /\ txn[t].pc = "idle"
  /\ \A u \in Txns : u < t => txn[u].pc # "idle"
  /\ g \in DOMAIN games
  /\ LET k == <<g, p>>
         found == k \in DOMAIN game_participants
     IN txn' = [txn EXCEPT ![t] =
          [IdleTxn EXCEPT
             !.pc = IF found THEN AfterLoop(1, sels) ELSE "insert",
             !.g = g, !.p = p, !.sels = sels,
             !.name = prof.name, !.color = prof.color, !.position = prof.position,
             !.start = now,
             !.v_game_participant_id = IF found THEN game_participants[k].id ELSE 0,
             !.closed_at_call = ~Open(games[g]),
             !.prior = IF found THEN game_participants[k].gift_value ELSE 0,
             !.overlaps = {u \in Txns : Running(u)},
             !.joined_at_call = Cardinality(PartsOf(game_participants, g)),
             !.v_current_gift_value = IF found THEN game_participants[k].gift_value ELSE 0,
             !.v_current_gifts_array = IF found THEN game_participants[k].gifts_array ELSE << >>]]
  /\ UNCHANGED <<games, game_participants, player_gifts, game_participant_gifts,
                 game_logs, match_history, now, client>>

\* INSERT INTO game_participants ... VALUES (..., 0, color, position, '{}')
InsertParticipant(t) ==
  LET r == txn[t]
      k == <<r.g, r.p>>
  IN /\ r.pc = "insert"
     /\ ~PartLocked(t, k)
     /\ txn' = [txn EXCEPT ![t] =
          IF k \in DOMAIN game_participants
          THEN Ended(r, "failed", "unique_violation")
          ELSE [r EXCEPT !.pc = AfterLoop(1, r.sels),
                         !.v_game_participant_id = t,
                         !.w_part = Merge(r.w_part, [x \in {k} |->
                            [id |-> t, player_name |-> r.name, gift_value |-> 0,
                             chance_percentage |-> Percentage(0, 0),
                             color |-> r.color, position |-> r.position,
                             gifts_array |-> << >>]])]]
     /\ UNCHANGED <<games, game_participants, player_gifts, game_participant_gifts,
                    game_logs, match_history, now, client>>

\* one pass of the FOR loop over p_gift_selections
GiftLoop(t) ==
  LET r == txn[t]
      s == r.sels[r.i]
      kg == <<r.g, r.p, s.giftId>>
      ki == <<r.p, s.giftId>>
      gpg == VisGpg(t)
      inv == VisInv(t)
  IN /\ r.pc = "loop"
     /\ ~GpgLocked(t, kg)
     /\ ~InvLocked(t, ki)
     /\ txn' = [txn EXCEPT ![t] =
          [r EXCEPT
             !.i = r.i + 1,
             !.pc = AfterLoop(r.i + 1, r.sels),
             !.short = r.short \/ ki \notin DOMAIN inv \/ s.quantity > inv[ki],
             !.w_gpg = Merge(r.w_gpg, [x \in {kg} |->
                IF kg \in DOMAIN gpg
                THEN [quantity |-> gpg[kg].quantity + s.quantity,
                      total_value |-> gpg[kg].total_value + s.totalValue]
                ELSE [quantity |-> s.quantity, total_value |-> s.totalValue]]),
             !.w_inv = IF ki \in DOMAIN inv
                       THEN Merge(r.w_inv, [x \in {ki} |-> inv[ki] - s.quantity])
                       ELSE r.w_inv,
             !.v_current_gifts_array = r.v_current_gifts_array \o Repeat(s.giftId, s.quantity),
             !.v_current_gift_value = r.v_current_gift_value + s.totalValue]]
     /\ UNCHANGED <<games, game_participants, player_gifts, game_participant_gifts,
                    game_logs, match_history, now, client>>

\* the UPDATE as it would be if it also took the name, colour and position of
\* the call
UpdateParticipantWithProfile(t) ==
  LET r == txn[t]
      k == <<r.g, r.p>>
      row == VisParts(t)[k]
  IN /\ r.pc = "update_participant"
     /\ ~PartLocked(t, k)
     /\ txn' = [txn EXCEPT ![t] =
          [r EXCEPT !.pc = "recalc_select",
                    !.w_part = Merge(r.w_part, [x \in {k} |->
                       [row EXCEPT !.gift_value = r.v_current_gift_value,
                                   !.gifts_array = r.v_current_gifts_array,
                                   !.player_name = r.name,
                                   !.color = r.color,
                                   !.position = r.position]])]]
     /\ UNCHANGED <<games, game_participants, player_gifts, game_participant_gifts,
                    game_logs, match_history, now, client>>

\* UPDATE game_participants SET gift_value = ..., gifts_array = ... WHERE id = ...
UpdateParticipant(t) ==
  LET r == txn[t]
      k == <<r.g, r.p>>
      row == VisParts(t)[k]
  IN /\ r.pc = "update_participant"
     /\ ~PartLocked(t, k)
     /\ txn' = [txn EXCEPT ![t] =
          [r EXCEPT !.pc = "recalc_select",
                    !.w_part = Merge(r.w_part, [x \in {k} |->
                       [row EXCEPT !.gift_value = r.v_current_gift_value,
                                   !.gifts_array = r.v_current_gifts_array]])]]
     /\ UNCHANGED <<games, game_participants, player_gifts, game_participant_gifts,
                    game_logs, match_history, now, client>>

\* recalculate_game_chances: SELECT COALESCE(SUM(gift_value), 0), COUNT(id)
RecalcSelect(t) ==
  LET r == txn[t]
      parts == VisParts(t)
      ks == PartsOf(parts, r.g)
  IN /\ r.pc = "recalc_select"
     /\ txn' = [txn EXCEPT ![t] =
          [r EXCEPT !.pc = "recalc_chances",
                    !.v_total_pot_value = SumF([k \in ks |-> parts[k].gift_value], ks),
                    !.v_total_players = Cardinality(ks)]]
     /\ UNCHANGED <<games, game_participants, player_gifts, game_participant_gifts,
                    game_logs, match_history, now, client>>

\* the rows of ks get chance_percentage from their own gift_value and the total
WithChances(t, ks) ==
  LET r == txn[t]
      parts == VisParts(t)
  IN Merge(r.w_part, [k \in ks |->
        [parts[k] EXCEPT !.chance_percentage =
            Percentage(parts[k].gift_value, r.v_total_pot_value)]])

\* recalculate_game_chances: UPDATE game_participants SET chance_percentage = ...
RecalcChances(t) ==
  LET r == txn[t]
      ks == PartsOf(VisParts(t), r.g)
  IN /\ r.pc = "recalc_chances"
     /\ \A k \in ks : ~PartLocked(t, k)
     /\ txn' = [txn EXCEPT ![t] =
          [r EXCEPT !.pc = "recalc_games", !.w_part = WithChances(t, ks)]]
     /\ UNCHANGED <<games, game_participants, player_gifts, game_participant_gifts,
                    game_logs, match_history, now, client>>

\* the same UPDATE finds a row locked: it keeps the rows of its snapshot and waits
RecalcChancesBlocked(t) ==
  LET r == txn[t]
      ks == PartsOf(VisParts(t), r.g)
  IN /\ r.pc = "recalc_chances"
     /\ \E k \in ks : PartLocked(t, k)
     /\ txn' = [txn EXCEPT ![t] = [r EXCEPT !.pc = "recalc_chances_wait", !.targets = ks]]
     /\ UNCHANGED <<games, game_participants, player_gifts, game_participant_gifts,
                    game_logs, match_history, now, client>>

\* the locks are gone: the UPDATE writes the latest version of the rows it had found
RecalcChancesResume(t) ==
  LET r == txn[t]
  IN /\ r.pc = "recalc_chances_wait"
     /\ \A k \in r.targets : ~PartLocked(t, k)
     /\ txn' = [txn EXCEPT ![t] =
          [r EXCEPT !.pc = "recalc_games", !.targets = {},
                    !.w_part = WithChances(t, r.targets)]]
     /\ UNCHANGED <<games, game_participants, player_gifts, game_participant_gifts,
                    game_logs, match_history, now, client>>

\* the step as it would be if the deadline were set again by every call that
\* counts two participants
RecalcGamesAndCommitRestart(t) ==
  LET r == txn[t]
      parts == VisParts(t)
      v_participant_count == Cardinality(PartsOf(parts, r.g))
      row == games[r.g]
  IN /\ r.pc = "recalc_games"
     /\ games' = [games EXCEPT ![r.g] =
          [row EXCEPT !.total_pot_balance = r.v_total_pot_value,
                      !.total_players = r.v_total_players,
                      !.countdown_ends_at =
                         IF v_participant_count >= 2
                         THEN r.start + CountdownSeconds
                         ELSE row.countdown_ends_at]]
     /\ game_participants' = parts
     /\ player_gifts' = VisInv(t)
     /\ game_participant_gifts' = VisGpg(t)
     /\ game_logs' = Append(game_logs,
          [game_id |-> r.g, player_id |-> r.p, log_type |-> "join",
           name |-> r.name, value |-> r.v_current_gift_value])
     /\ txn' = [txn EXCEPT ![t] = Ended(r, "committed", "none")]
     /\ UNCHANGED <<match_history, now, client>>

\* the step as it would be if the count of the participants were the one that
\* recalculate_game_chances had read before it waited for the games row
RecalcGamesAndCommitStaleCount(t) ==
  LET r == txn[t]
      parts == VisParts(t)
      v_participant_count == r.v_total_players
      row == games[r.g]
  IN /\ r.pc = "recalc_games"
     /\ games' = [games EXCEPT ![r.g] =
          [row EXCEPT !.total_pot_balance = r.v_total_pot_value,
                      !.total_players = r.v_total_players,
                      !.countdown_ends_at =
                         IF v_participant_count >= 2 /\ row.countdown_ends_at = 0
                         THEN r.start + CountdownSeconds
                         ELSE row.countdown_ends_at]]
     /\ game_participants' = parts
     /\ player_gifts' = VisInv(t)
     /\ game_participant_gifts' = VisGpg(t)
     /\ game_logs' = Append(game_logs,
          [game_id |-> r.g, player_id |-> r.p, log_type |-> "join",
           name |-> r.name, value |-> r.v_current_gift_value])
     /\ txn' = [txn EXCEPT ![t] = Ended(r, "committed", "none")]
     /\ UNCHANGED <<match_history, now, client>>

\* The UPDATE of the games row takes its lock, which the transaction keeps to
\* its end, so the statements from here to the commit run without another
\* statement on that game between them:
\*   recalculate_game_chances: UPDATE games SET total_pot_balance, total_players
\*   SELECT COUNT(*) INTO v_participant_count
\*   UPDATE games SET countdown_ends_at = COALESCE(...) WHERE ... IS NULL
\*   INSERT INTO game_logs
\*   COMMIT
RecalcGamesAndCommit(t) ==
  LET r == txn[t]
      parts == VisParts(t)
      v_participant_count == Cardinality(PartsOf(parts, r.g))
      row == games[r.g]
  IN /\ r.pc = "recalc_games"
     /\ games' = [games EXCEPT ![r.g] =
          [row EXCEPT !.total_pot_balance = r.v_total_pot_value,
                      !.total_players = r.v_total_players,
                      !.countdown_ends_at =
                         IF v_participant_count >= 2 /\ row.countdown_ends_at = 0
                         THEN r.start + CountdownSeconds
                         ELSE row.countdown_ends_at]]
     /\ game_participants' = parts
     /\ player_gifts' = VisInv(t)
     /\ game_participant_gifts' = VisGpg(t)
     /\ game_logs' = Append(game_logs,
          [game_id |-> r.g, player_id |-> r.p, log_type |-> "join",
           name |-> r.name, value |-> r.v_current_gift_value])
     /\ txn' = [txn EXCEPT ![t] = Ended(r, "committed", "none")]
     /\ UNCHANGED <<match_history, now, client>>

\* ------------------------------------------------------------ deadlocks
\* the participant rows the next statement of t has to lock
NeedsPart(t) ==
  LET r == txn[t]
  IN CASE r.pc \in {"insert", "update_participant"} -> {<<r.g, r.p>>}
       [] r.pc = "recalc_chances" -> PartsOf(VisParts(t), r.g)
       [] r.pc = "recalc_chances_wait" -> r.targets
       [] OTHER -> {}

NeedsInv(t) ==
  LET r == txn[t]
  IN IF r.pc = "loop" THEN {<<r.p, r.sels[r.i].giftId>>} ELSE {}

NeedsGpg(t) ==
  LET r == txn[t]
  IN IF r.pc = "loop" THEN {<<r.g, r.p, r.sels[r.i].giftId>>} ELSE {}

\* the transactions t waits for
WaitsFor(t) ==
  {u \in Txns \ {t} :
     /\ Running(t) /\ Running(u)
     /\ \/ NeedsPart(t) \cap DOMAIN txn[u].w_part # {}
        \/ NeedsInv(t) \cap DOMAIN txn[u].w_inv # {}
        \/ NeedsGpg(t) \cap DOMAIN txn[u].w_gpg # {}}

RECURSIVE WaitsForWithin(_, _)
WaitsForWithin(S, n) ==
  IF n = 0 THEN S ELSE WaitsForWithin(S \cup UNION {WaitsFor(u) : u \in S}, n - 1)

\* the deadlock detector rolls back one transaction of a cycle of waiting ones
DeadlockAbort(t) ==
  /\ Running(t)
  /\ t \in WaitsForWithin(WaitsFor(t), MaxCalls)
  /\ txn' = [txn EXCEPT ![t] = Ended(txn[t], "failed", "deadlock_detected")]
  /\ UNCHANGED <<games, game_participants, player_gifts, game_participant_gifts,
                 game_logs, match_history, now, client>>

\* ------------------------------------------------------------------ clock
Tick ==
  /\ now < MaxTicks * TickSeconds
  /\ now' = now + TickSeconds
  /\ UNCHANGED <<games, game_participants, player_gifts, game_participant_gifts,
                 game_logs, match_history, txn, client>>

\* ------------------------------------------------- the contribution ledger
\* The inventory before any call: every player but the last holds InitQty units
\* of every gift type, the last player holds no inventory row.
Holders == {k \in Players \X Gifts : k[1] < NumPlayers}

\* The ledger after players 1..n have joined the waiting game one after the
\* other at time 0, each with one unit of gift type 1 and its own profile.
JoinedLedger(g, n) ==
  /\ games = [x \in {g} |->
       [NewGame(1) EXCEPT !.total_pot_balance = n * base_value(1),
                          !.total_players = n,
                          !.countdown_ends_at = IF n >= 2 THEN CountdownSeconds ELSE 0]]
  /\ game_participants = [k \in {g} \X (1..n) |->
       [id |-> 0 - k[2], player_name |-> Profile(k[2]).name, gift_value |-> base_value(1),
        chance_percentage |-> Percentage(base_value(1), n * base_value(1)),
        color |-> Profile(k[2]).color, position |-> Profile(k[2]).position,
        gifts_array |-> <<1>>]]
  /\ player_gifts = [k \in Holders |-> IF k[1] <= n /\ k[2] = 1 THEN InitQty - 1 ELSE InitQty]
  /\ game_participant_gifts = [k \in {g} \X (1..n) \X {1} |->
       [quantity |-> 1, total_value |-> base_value(1)]]
  /\ game_logs = [i \in 1..n |->
       [game_id |-> g, player_id |-> i, log_type |-> "join",
        name |-> Profile(i).name, value |-> base_value(1)]]

\* one waiting game, as getCurrentGame created it, which none, some or all of
\* the players have joined
InitLedger ==
  /\ \E n \in 0..NumPlayers : JoinedLedger(1, n)
  /\ match_history = << >>
  /\ now = 0
  /\ txn = [t \in Txns |-> IdleTxn]
  /\ client = [p \in Players |-> NewClient]

CallInputs == ListsUpTo(HonestSelections, MaxSel)

NextLedger ==
  \/ \E t \in Txns, g \in DOMAIN games, p \in Players, sels \in CallInputs, prof \in Profiles :
       AddGiftsCall(t, g, p, sels, prof)
  \/ \E t \in Txns : InsertParticipant(t)
  \/ \E t \in Txns : GiftLoop(t)
  \/ \E t \in Txns : UpdateParticipant(t)
  \/ \E t \in Txns : RecalcSelect(t)
  \/ \E t \in Txns : RecalcChances(t)
  \/ \E t \in Txns : RecalcChancesBlocked(t)
  \/ \E t \in Txns : RecalcChancesResume(t)
  \/ \E t \in Txns : RecalcGamesAndCommit(t)
  \/ \E t \in Txns : DeadlockAbort(t)
  \/ Tick

SpecLedger == InitLedger /\ [][NextLedger]_vars

\* -------------------------------------------------- submissions of any shape
\* What a caller of the RPC can put into p_gift_selections: the function casts
\* quantity to integer and totalValue to numeric and tests neither.
SubmittedSelections ==
  [giftId : Gifts, quantity : (0 - 1)..MaxQty, totalValue : 0..(MaxQty * base_value(NumGifts))]

SubmitInputs == ListsUpTo(SubmittedSelections, MaxSel)

\* the calls arrive one after the other, each when the one before it has ended
NextSubmit ==
  \/ \E t \in Txns, g \in DOMAIN games, p \in Players, sels \in SubmitInputs, prof \in Profiles :
       /\ \A u \in Txns : ~Running(u)
       /\ AddGiftsCall(t, g, p, sels, prof)
  \/ \E t \in Txns : InsertParticipant(t)
  \/ \E t \in Txns : GiftLoop(t)
  \/ \E t \in Txns : UpdateParticipant(t)
  \/ \E t \in Txns : RecalcSelect(t)
  \/ \E t \in Txns : RecalcChances(t)
  \/ \E t \in Txns : RecalcGamesAndCommit(t)

SpecSubmit == InitLedger /\ [][NextSubmit]_vars

\* ------------------------------------------------------ the round resolution
\* a row of game_participants as loadGameParticipants maps it to the Player of
\* the wheel (balance is 0 for every player)
FormattedPlayer(parts, k) == [id |-> k[2], giftValue |-> parts[k].gift_value]

\* The rows of game g in the order of position (rows of equal position in the
\* order of their ids).
RECURSIVE LoadedParticipants(_, _)
LoadedParticipants(parts, ks) ==
  IF ks = {} THEN << >>
  ELSE LET k == CHOOSE x \in ks : \A y \in ks :
                   \/ parts[x].position < parts[y].position
                   \/ parts[x].position = parts[y].position /\ parts[x].id <= parts[y].id
       IN <<FormattedPlayer(parts, k)>> \o LoadedParticipants(parts, ks \ {k})

GameParticipants(parts, g) == LoadedParticipants(parts, PartsOf(parts, g))

\* What getGameParticipants can return for game g: the select has no ORDER BY,
\* so the rows come in any order, the order of position being one of them.
RowOrders(parts, g) ==
  LET ks == PartsOf(parts, g)
      n == Cardinality(ks)
  IN {[i \in 1..n |-> FormattedPlayer(parts, f[i])] :
        f \in {h \in [1..n -> ks] : \A i, j \in 1..n : h[i] = h[j] => i = j}}

\* const activePlayers = dbPlayers.length > 0 ? dbPlayers : players
ActivePlayers(r) == IF r.dbPlayers # << >> THEN r.dbPlayers ELSE r.players

RECURSIVE TotalValue(_)
TotalValue(list) == IF list = << >> THEN 0 ELSE Head(list).giftValue + TotalValue(Tail(list))

\* let selectedWinner: Player | null = null
NoWinner == [id |-> 0 - 1, giftValue |-> 0]

\* a loop that tests the draw against the player's own value and not against
\* the running sum
RECURSIVE SelectedWinnerOwnValue(_, _)
SelectedWinnerOwnValue(list, d) ==
  IF list = << >> THEN NoWinner
  ELSE IF d <= 2 * Head(list).giftValue THEN Head(list)
       ELSE SelectedWinnerOwnValue(Tail(list), d)

\* The loop of spinWheel over activePlayers: currentSum += playerValue, and the
\* first player with randomValue <= currentSum is selected.  randomValue is
\* d / 2, so that the draw takes the values between two cumulative sums (d odd)
\* and the cumulative sums themselves (d even).
RECURSIVE DrawLoop(_, _, _)
DrawLoop(list, d, currentSum) ==
  IF list = << >> THEN NoWinner
  ELSE LET sum == currentSum + Head(list).giftValue
       IN IF d <= 2 * sum THEN Head(list) ELSE DrawLoop(Tail(list), d, sum)

SelectedWinner(list, d) == DrawLoop(list, d, 0)

Draws == 0..(2 * (NumPlayers * RoundQty + MaxLocal) * base_value(NumGifts) - 1)

\* the games the select of getCurrentGame matches, and the one it returns
WaitingGames == {g \in DOMAIN games : games[g].status = "waiting"}

LatestWaiting == CHOOSE g \in WaitingGames : \A h \in WaitingGames : h <= g

\* the callback of the interval with two seconds taken off
DecrementedByTwo(prev) == prev - 2

\* the callback of the interval: prev !== null && prev > 0 ? prev - 1 : 0
Decremented(prev) == IF prev # Null /\ prev > 0 THEN prev - 1 ELSE 0

\* setGameCountdown(v) and the countdown effect that a change of gameCountdown
\* runs: the cleanup of the last run clears the timer of the ref; then a
\* positive v starts a timer and puts it in the ref, and v = 0 with a timer in
\* the ref clears it and empties the ref
SetGameCountdown(r, v) ==
  LET cleaned == IF v # r.gameCountdown
                 THEN r.intervals \ {r.countdownIntervalRef} ELSE r.intervals
      timer == CHOOSE i \in 1..(Cardinality(cleaned) + 1) : i \notin cleaned
  IN IF v = r.gameCountdown THEN r
     ELSE IF v > 0
     THEN [r EXCEPT !.gameCountdown = v, !.intervals = cleaned \cup {timer},
                    !.countdownIntervalRef = timer]
     ELSE IF v = 0 /\ r.countdownIntervalRef # 0
     THEN [r EXCEPT !.gameCountdown = v, !.intervals = cleaned,
                    !.countdownIntervalRef = 0]
     ELSE [r EXCEPT !.gameCountdown = v, !.intervals = cleaned]

\* setCurrentGameId(g) and setGameCountdown(game.countdown_seconds), the
\* subscriptions of the hook move to g and its participants are loaded; the
\* wheel copies them when there are any
Entered(r, g, loaded) ==
     [SetGameCountdown(r, countdown_seconds(g)) EXCEPT
               !.currentGameId = g,
               !.dbPlayers = loaded,
               !.players = IF loaded # << >> THEN loaded ELSE @,
               !.evt = IF g = r.currentGameId THEN @ ELSE FALSE,
               !.load = FALSE]

\* the clients subscribed to g reload its participants, client c receiving
\* ord[c]; completed says that the games row the change wrote has status completed
Notified(cl, g, completed, ord) ==
  [c \in Players |->
     IF cl[c].currentGameId = g
     THEN LET loaded == ord[c]
          IN [cl[c] EXCEPT !.dbPlayers = loaded,
                           !.players = IF loaded # << >> THEN loaded ELSE @,
                           !.evt = @ \/ completed]
     ELSE cl[c]]

\* getCurrentGame: without a waiting game every call goes on to the insert
InsertsAlways(rollNumber) == TRUE

\* getCurrentGame: without a waiting game the call goes on to the insert only
\* if (rollNumber > 0), and returns null otherwise
InsertsWhenNoneWaiting(rollNumber) == rollNumber > 0

\* the effect that runs while currentGameId is null: getCurrentGame(0)
LoadCurrentGame(c) ==
  LET r == client[c]
  IN /\ r.load /\ r.pc = "idle" /\ r.currentGameId = 0
     /\ IF WaitingGames # {}
        THEN \E loaded \in RowOrders(game_participants, LatestWaiting) :
               client' = [client EXCEPT ![c] = Entered(r, LatestWaiting, loaded)]
        ELSE IF InsertsWhenNoneWaiting(0)
        THEN client' = [client EXCEPT ![c] = [r EXCEPT !.pc = "load_insert"]]
        ELSE client' = [client EXCEPT ![c] = [r EXCEPT !.load = FALSE]]
     /\ UNCHANGED <<games, game_participants, player_gifts, game_participant_gifts,
                    game_logs, match_history, now, txn>>

\* what the gift popup offers: the rows of the player's inventory with quantity > 0
Offered(p) == {gift \in Gifts : <<p, gift>> \in DOMAIN player_gifts /\ player_gifts[<<p, gift>>] > 0}

\* confirmGiftSelection with a current game: one unit of an offered gift goes
\* through add_gifts_to_game.  No other call overlaps it here, so the statements
\* of the function run as one step; the subscribed clients reload.
ConfirmGiftSelection(c, gift) ==
  LET r == client[c]
      g == r.currentGameId
      k == <<g, c>>
      kg == <<g, c, gift>>
      ki == <<c, gift>>
      active == ActivePlayers(r)
      row0 == IF k \in DOMAIN game_participants
              THEN game_participants[k]
              ELSE [id |-> Cardinality(DOMAIN game_participants) + 1,
                    player_name |-> c, gift_value |-> 0,
                    chance_percentage |-> Percentage(0, 0),
                    color |-> Len(active) % MaxWheelPlayers, position |-> Len(active),
                    gifts_array |-> << >>]
      row1 == [row0 EXCEPT !.gift_value = @ + base_value(gift),
                           !.gifts_array = Append(@, gift)]
      parts1 == Merge(game_participants, [x \in {k} |-> row1])
      ks == PartsOf(parts1, g)
      v_total_pot_value == SumF([x \in ks |-> parts1[x].gift_value], ks)
      parts2 == Merge(parts1, [x \in ks |->
                  [parts1[x] EXCEPT !.chance_percentage =
                      Percentage(parts1[x].gift_value, v_total_pot_value)]])
  IN /\ r.pc = "idle" /\ g # 0
     /\ gift \in Offered(c)
     /\ Len(active) < MaxWheelPlayers
     /\ game_participants' = parts2
     /\ game_participant_gifts' = Merge(game_participant_gifts, [x \in {kg} |->
          IF kg \in DOMAIN game_participant_gifts
          THEN [quantity |-> game_participant_gifts[kg].quantity + 1,
                total_value |-> game_participant_gifts[kg].total_value + base_value(gift)]
          ELSE [quantity |-> 1, total_value |-> base_value(gift)]])
     /\ player_gifts' = [player_gifts EXCEPT ![ki] = @ - 1]
     /\ games' = [games EXCEPT ![g] =
          [@ EXCEPT !.total_pot_balance = v_total_pot_value,
                    !.total_players = Cardinality(ks),
                    !.countdown_ends_at =
                       IF Cardinality(ks) >= 2 /\ @ = 0 THEN now + CountdownSeconds ELSE @]]
     /\ game_logs' = Append(game_logs,
          [game_id |-> g, player_id |-> c, log_type |-> "join",
           name |-> c, value |-> row1.gift_value])
     /\ \E ord \in [Players -> RowOrders(parts2, g)] :
          client' = Notified(client, g, games[g].status = "completed", ord)
     /\ UNCHANGED <<match_history, now, txn>>

\* confirmGiftSelection without a current game: the player is added to the
\* local wheel only
ConfirmGiftSelectionOffline(c, gift) ==
  LET r == client[c]
  IN /\ r.pc = "idle" /\ r.currentGameId = 0
     /\ gift \in Offered(c)
     /\ Len(ActivePlayers(r)) < MaxWheelPlayers
     /\ Len(r.players) < MaxLocal
     /\ client' = [client EXCEPT ![c] =
          [r EXCEPT !.players = Append(@, [id |-> 0, giftValue |-> base_value(gift)])]]
     /\ UNCHANGED <<games, game_participants, player_gifts, game_participant_gifts,
                    game_logs, match_history, now, txn>>

\* spinWheel returning only when nobody is on the wheel
NobodyOnWheel(activePlayers) == Len(activePlayers) < 1

\* spinWheel: if (activePlayers.length < 2) return
TooFewPlayers(activePlayers) == Len(activePlayers) < 2

\* spinWheel up to the start of the timeout: the guards, the spin log and the draw
SpinWheel(c, d) ==
  LET r == client[c]
      activePlayers == ActivePlayers(r)
      totalValue == TotalValue(activePlayers)
      selectedWinner == SelectedWinner(activePlayers, d)
  IN /\ r.pc = "idle"
     /\ ~TooFewPlayers(activePlayers)
     /\ r.rollNumber < FirstRoll + MaxSpins
     /\ d < 2 * totalValue \/ (totalValue = 0 /\ d = 0)
     /\ game_logs' = IF r.currentGameId # 0
                     THEN Append(game_logs,
                            [game_id |-> r.currentGameId, player_id |-> 0,
                             log_type |-> "spin", name |-> 0, value |-> 0])
                     ELSE game_logs
     /\ client' = [client EXCEPT ![c] =
          [r EXCEPT !.pc = "spinning",
                    !.spin = [gameId |-> r.currentGameId, rollNumber |-> r.rollNumber,
                              winner |-> selectedWinner.id,
                              winnerChance |-> Percentage(selectedWinner.giftValue, totalValue),
                              totalGiftValue |-> totalValue, participants |-> {},
                              historyError |-> FALSE]]]
     /\ UNCHANGED <<games, game_participants, player_gifts, game_participant_gifts,
                    match_history, now, txn>>

\* the wheel has turned and the round is closed on the client: the roll number
\* goes up, the local wheel is emptied, getCurrentGame(rollNumber + 1) is next
Finished(r) ==
  [r EXCEPT !.pc = "next_select", !.rollNumber = @ + 1, !.players = << >>]

\* The timeout fires.  With a game, completeGame starts with the select of the
\* participants for the snapshot; without one the round is over at once.
SpinTimeout(c) ==
  LET r == client[c]
      g == r.spin.gameId
  IN /\ r.pc = "spinning"
     /\ client' = [client EXCEPT ![c] =
          IF g # 0
          THEN [r EXCEPT !.pc = "complete_update",
                         !.spin.participants =
                            {<<k[2], game_participants[k].gift_value>> :
                               k \in PartsOf(game_participants, g)}]
          ELSE Finished(r)]
     /\ UNCHANGED <<games, game_participants, player_gifts, game_participant_gifts,
                    game_logs, match_history, now, txn>>

\* completeGame: UPDATE games SET status = 'completed', winner_player_id = ...
\* WHERE id = gameId, with the id of the client's own player as the winner
CompleteGameUpdate(c) ==
  LET r == client[c]
      g == r.spin.gameId
      told == [x \in Players |->
                 IF client[x].currentGameId = g THEN [client[x] EXCEPT !.evt = TRUE]
                 ELSE client[x]]
  IN /\ r.pc = "complete_update"
     /\ games' = [games EXCEPT ![g] =
          [@ EXCEPT !.status = "completed", !.winner_player_id = c]]
     /\ client' = [told EXCEPT ![c] = [@ EXCEPT !.pc = "complete_history"]]
     /\ UNCHANGED <<game_participants, player_gifts, game_participant_gifts,
                    game_logs, match_history, now, txn>>

\* completeGame: INSERT INTO match_history; timestamp is the column's default,
\* now()
CompleteGameHistory(c) ==
  LET r == client[c]
      g == r.spin.gameId
  IN /\ r.pc = "complete_history"
     /\ match_history' = Append(match_history,
          [game_id |-> g, roll_number |-> games[g].roll_number,
           winner_player_id |-> c, winner_chance |-> r.spin.winnerChance,
           total_pot |-> r.spin.totalGiftValue,
           players_snapshot |-> r.spin.participants,
           timestamp |-> now])
     /\ client' = [client EXCEPT ![c] = [r EXCEPT !.pc = "winner_log"]]
     /\ UNCHANGED <<games, game_participants, player_gifts, game_participant_gifts,
                    game_logs, now, txn>>

\* completeGame: the insert into match_history fails (historyError); completeGame
\* of the hook catches what completeGame throws, and spinWheel goes on
CompleteGameHistoryFails(c) ==
  LET r == client[c]
  IN /\ r.pc = "complete_history"
     /\ client' = [client EXCEPT ![c] =
          [r EXCEPT !.pc = "winner_log", !.spin.historyError = TRUE]]
     /\ UNCHANGED <<games, game_participants, player_gifts, game_participant_gifts,
                    game_logs, match_history, now, txn>>

\* the winner log, and the round is closed on the client
SpinFinish(c) ==
  LET r == client[c]
  IN /\ r.pc = "winner_log"
     /\ game_logs' = Append(game_logs,
          [game_id |-> r.spin.gameId, player_id |-> c, log_type |-> "winner",
           name |-> r.spin.winner, value |-> r.spin.totalGiftValue])
     /\ client' = [client EXCEPT ![c] = Finished(r)]
     /\ UNCHANGED <<games, game_participants, player_gifts, game_participant_gifts,
                    match_history, now, txn>>

\* getCurrentGame(rollNumber + 1): the select of the latest waiting game
GetCurrentGameSelect(c) ==
  LET r == client[c]
  IN /\ r.pc = "next_select"
     /\ IF WaitingGames # {}
        THEN \E loaded \in RowOrders(game_participants, LatestWaiting) :
               client' = [client EXCEPT ![c] =
                 [Entered(r, LatestWaiting, loaded) EXCEPT !.pc = "idle", !.spin = NoSpin]]
        ELSE IF InsertsWhenNoneWaiting(r.spin.rollNumber + 1)
        THEN client' = [client EXCEPT ![c] = [r EXCEPT !.pc = "next_insert"]]
        ELSE client' = [client EXCEPT ![c] = [r EXCEPT !.pc = "idle", !.spin = NoSpin]]
     /\ UNCHANGED <<games, game_participants, player_gifts, game_participant_gifts,
                    game_logs, match_history, now, txn>>

\* getCurrentGame(rollNumber + 1): the insert of a new waiting game, which the
\* unique constraint on roll_number rejects when the number is taken ("load_insert"
\* is the same place in getCurrentGame(0))
GetCurrentGameInsert(c) ==
  LET r == client[c]
      rollNumber == IF r.pc = "load_insert" THEN 0 ELSE r.spin.rollNumber + 1
      id == Cardinality(DOMAIN games) + 1
      taken == \E g \in DOMAIN games : games[g].roll_number = rollNumber
  IN /\ r.pc \in {"next_insert", "load_insert"}
     /\ taken \/ Cardinality(DOMAIN games) < MaxGames
     /\ games' = IF taken THEN games
                 ELSE Merge(games, [x \in {id} |-> NewGame(rollNumber)])
     /\ client' = [client EXCEPT ![c] =
          IF taken THEN [r EXCEPT !.pc = "idle", !.spin = NoSpin]
          ELSE [Entered(r, id, << >>) EXCEPT !.pc = "idle", !.spin = NoSpin]]
     /\ UNCHANGED <<game_participants, player_gifts, game_participant_gifts,
                    game_logs, match_history, now, txn>>

\* the subscription delivers the change of the current game to completed
GameCompletedEvent(c) ==
  LET r == client[c]
  IN /\ r.evt
     /\ client' = [client EXCEPT ![c] =
          [SetGameCountdown(r, Null) EXCEPT
             !.evt = FALSE, !.dbPlayers = << >>, !.currentGameId = 0, !.load = TRUE]]
     /\ UNCHANGED <<games, game_participants, player_gifts, game_participant_gifts,
                    game_logs, match_history, now, txn>>

\* an empty database, every player with RoundQty units of every gift type, and
\* every client freshly mounted
InitRound ==
  /\ games = EmptyMap
  /\ game_participants = EmptyMap
  /\ player_gifts = [k \in Players \X Gifts |-> RoundQty]
  /\ game_participant_gifts = EmptyMap
  /\ game_logs = << >>
  /\ match_history = << >>
  /\ now = 0
  /\ txn = [t \in Txns |-> IdleTxn]
  /\ client = [p \in Players |-> NewClient]

NextRound ==
  \/ \E c \in Players : LoadCurrentGame(c)
  \/ \E c \in Players, gift \in Gifts : ConfirmGiftSelection(c, gift)
  \/ \E c \in Players, gift \in Gifts : ConfirmGiftSelectionOffline(c, gift)
  \/ \E c \in Players, d \in Draws : SpinWheel(c, d)
  \/ \E c \in Players : SpinTimeout(c)
  \/ \E c \in Players : CompleteGameUpdate(c)
  \/ \E c \in Players : CompleteGameHistory(c)
  \/ \E c \in Players : SpinFinish(c)
  \/ \E c \in Players : GetCurrentGameSelect(c)
  \/ \E c \in Players : GetCurrentGameInsert(c)
  \/ \E c \in Players : GameCompletedEvent(c)

SpecRound == InitRound /\ [][NextRound]_vars

\* ------------------------------------------- the resolution of a joined game
\* The state of the round after the client of the last player has created the
\* first game at the end of a local spin, the other clients have loaded it when
\* they started, and every player has joined it with one of its two units of
\* gift type 1.
InitResolve ==
  /\ games = [x \in {1} |->
       [NewGame(FirstRoll + 1) EXCEPT !.total_pot_balance = NumPlayers * base_value(1),
                                      !.total_players = NumPlayers,
                                      !.countdown_ends_at = CountdownSeconds]]
  /\ game_participants = [k \in {1} \X Players |->
       [id |-> k[2], player_name |-> k[2], gift_value |-> base_value(1),
        chance_percentage |-> Percentage(base_value(1), NumPlayers * base_value(1)),
        color |-> k[2] - 1, position |-> k[2] - 1, gifts_array |-> <<1>>]]
  /\ player_gifts = [k \in Players \X Gifts |-> 1]
  /\ game_participant_gifts = [k \in {1} \X Players \X {1} |->
       [quantity |-> 1, total_value |-> base_value(1)]]
  /\ game_logs = [i \in 1..NumPlayers |->
       [game_id |-> 1, player_id |-> i, log_type |-> "join",
        name |-> i, value |-> base_value(1)]]
  /\ match_history = << >>
  /\ now = 0
  /\ txn = [t \in Txns |-> IdleTxn]
  /\ \E ord \in [Players -> RowOrders(game_participants, 1)] :
       client = [p \in Players |->
         [Entered(NewClient, 1, ord[p]) EXCEPT
            !.rollNumber = IF p = NumPlayers THEN FirstRoll + 1 ELSE FirstRoll]]

\* The operations on the joined game up to the winner log of spinWheel: further
\* contributions, the draw, completeGame with an insert into match_history that
\* succeeds or fails, and the delivery of the completed event.
NextResolve ==
  \/ \E c \in Players, gift \in Gifts : ConfirmGiftSelection(c, gift)
  \/ \E c \in Players, d \in Draws : SpinWheel(c, d)
  \/ \E c \in Players : SpinTimeout(c)
  \/ \E c \in Players : CompleteGameUpdate(c)
  \/ \E c \in Players : CompleteGameHistory(c)
  \/ \E c \in Players : CompleteGameHistoryFails(c)
  \/ \E c \in Players : SpinFinish(c)
  \/ \E c \in Players : GameCompletedEvent(c)

SpecResolve == InitResolve /\ [][NextResolve]_vars

\* ------------------------------------------------- re-fetching on notification
\* the changes of the participants of g that have been committed: every call
\* that commits writes one join log
Changes(g) == Cardinality({i \in 1..Len(game_logs) : game_logs[i].game_id = g})

\* The participants subscription delivers the next notification to client c and
\* its callback calls loadGameParticipants: the select runs on the rows that
\* are committed now, and its response is on its way.
LoadRequest(c) ==
  LET r == client[c]
      g == r.currentGameId
  IN /\ g # 0
     /\ r.delivered < Changes(g)
     /\ \E rows \in RowOrders(game_participants, g) :
          client' = [client EXCEPT ![c] =
            [r EXCEPT !.delivered = @ + 1, !.inflight = @ \cup {rows}]]
     /\ UNCHANGED <<games, game_participants, player_gifts, game_participant_gifts,
                    game_logs, match_history, now, txn>>

\* a response arrives, in whatever order: setDbPlayers(formattedPlayers)
LoadResponse(c, rows) ==
  LET r == client[c]
  IN /\ rows \in r.inflight
     /\ client' = [client EXCEPT ![c] =
          [r EXCEPT !.inflight = @ \ {rows},
                    !.dbPlayers = rows,
                    !.players = IF rows # << >> THEN rows ELSE @]]
     /\ UNCHANGED <<games, game_participants, player_gifts, game_participant_gifts,
                    game_logs, match_history, now, txn>>

\* a waiting game that some of the players have joined, every client with the
\* game and its participants loaded and no notification outstanding
InitRefetch ==
  /\ \E n \in 0..NumPlayers : JoinedLedger(1, n)
  /\ match_history = << >>
  /\ now = 0
  /\ txn = [t \in Txns |-> IdleTxn]
  /\ \E ord \in [Players -> RowOrders(game_participants, 1)] :
       client = [p \in Players |->
         [Entered(NewClient, 1, ord[p]) EXCEPT !.delivered = Changes(1)]]

\* calls of add_gifts_to_game one after the other, and the reloads they trigger
NextRefetch ==
  \/ \E t \in Txns, g \in DOMAIN games, p \in Players, sels \in CallInputs, prof \in Profiles :
       /\ \A u \in Txns : ~Running(u)
       /\ AddGiftsCall(t, g, p, sels, prof)
  \/ \E t \in Txns : InsertParticipant(t)
  \/ \E t \in Txns : GiftLoop(t)
  \/ \E t \in Txns : UpdateParticipant(t)
  \/ \E t \in Txns : RecalcSelect(t)
  \/ \E t \in Txns : RecalcChances(t)
  \/ \E t \in Txns : RecalcGamesAndCommit(t)
  \/ \E c \in Players : LoadRequest(c)
  \/ \E c \in Players : \E rows \in client[c].inflight : LoadResponse(c, rows)

SpecRefetch == InitRefetch /\ [][NextRefetch]_vars

\* C27: when a client has received every notification of its game and none of
\* its requests is outstanding, its dbPlayers are the participants of the game
C27_RefetchConverges ==
  \A c \in Players :
    LET r == client[c]
        g == r.currentGameId
    IN (g # 0 /\ r.delivered = Changes(g) /\ r.inflight = {}) =>
         /\ Len(r.dbPlayers) = Cardinality(PartsOf(game_participants, g))
         /\ {r.dbPlayers[i] : i \in 1..Len(r.dbPlayers)} =
              {FormattedPlayer(game_participants, k) : k \in PartsOf(game_participants, g)}

\* ------------------------------------------------------- the log of a game
\* the positions in game_logs of the rows of game g, the latest first
RECURSIVE LogIdsDesc(_, _)
LogIdsDesc(g, n) ==
  IF n = 0 THEN << >>
  ELSE (IF game_logs[n].game_id = g THEN <<n>> ELSE << >>) \o LogIdsDesc(g, n - 1)

\* getGameLogs as loadGameLogs formats it: the rows of g by created_at,
\* descending, at most LogLimit of them; the id of a row is its position
GetGameLogs(g) ==
  LET ids == LogIdsDesc(g, Len(game_logs))
      n == IF Len(ids) < LogLimit THEN Len(ids) ELSE LogLimit
  IN [i \in 1..n |-> [id |-> ids[i], type |-> game_logs[ids[i]].log_type]]

\* The logs subscription delivers an INSERT event to client c, the next one or
\* (again) one that it has delivered before, and the callback calls
\* loadGameLogs: the select runs now and its response is on its way.
LogEvent(c, again) ==
  LET r == client[c]
      g == r.currentGameId
  IN /\ g # 0
     /\ Cardinality(r.logsInflight) < MaxInflight
     /\ IF again THEN r.logsDelivered > 0 ELSE r.logsDelivered < Changes(g)
     /\ client' = [client EXCEPT ![c] =
          [r EXCEPT !.logsDelivered = IF again THEN @ ELSE @ + 1,
                    !.logsInflight = @ \cup {GetGameLogs(g)}]]
     /\ UNCHANGED <<games, game_participants, player_gifts, game_participant_gifts,
                    game_logs, match_history, now, txn>>

\* a response arrives, in whatever order: setDbGameLogs(formattedLogs)
LogResponse(c, logs) ==
  LET r == client[c]
  IN /\ logs \in r.logsInflight
     /\ client' = [client EXCEPT ![c] =
          [r EXCEPT !.logsInflight = @ \ {logs}, !.dbGameLogs = logs]]
     /\ UNCHANGED <<games, game_participants, player_gifts, game_participant_gifts,
                    game_logs, match_history, now, txn>>

\* a waiting game that some of the players have joined; the first player's
\* client has the game and its log loaded and no notification outstanding, the
\* other clients have not loaded a game
InitLogs ==
  /\ \E n \in 0..NumPlayers : JoinedLedger(1, n)
  /\ match_history = << >>
  /\ now = 0
  /\ txn = [t \in Txns |-> IdleTxn]
  /\ client = [p \in Players |->
       IF p = 1
       THEN [Entered(NewClient, 1, GameParticipants(game_participants, 1)) EXCEPT
               !.delivered = Changes(1), !.logsDelivered = Changes(1),
               !.dbGameLogs = GetGameLogs(1)]
       ELSE NewClient]

\* calls of add_gifts_to_game one after the other, and the log reloads that
\* their log rows trigger
NextLogs ==
  \/ \E t \in Txns, g \in DOMAIN games, p \in Players, sels \in CallInputs, prof \in Profiles :
       /\ \A u \in Txns : ~Running(u)
       /\ AddGiftsCall(t, g, p, sels, prof)
  \/ \E t \in Txns : InsertParticipant(t)
  \/ \E t \in Txns : GiftLoop(t)
  \/ \E t \in Txns : UpdateParticipant(t)
  \/ \E t \in Txns : RecalcSelect(t)
  \/ \E t \in Txns : RecalcChances(t)
  \/ \E t \in Txns : RecalcGamesAndCommit(t)
  \/ \E c \in Players, again \in BOOLEAN : LogEvent(c, again)
  \/ \E c \in Players : \E logs \in client[c].logsInflight : LogResponse(c, logs)

SpecLogs == InitLogs /\ [][NextLogs]_vars

\* C28: the log list of a client holds no log row twice, and when the client
\* has received every log event of its game and none of its requests is
\* outstanding, the list is what getGameLogs returns
C28_LogListConverges ==
  \A c \in Players :
    LET r == client[c]
        g == r.currentGameId
    IN /\ \A i, j \in 1..Len(r.dbGameLogs) :
            r.dbGameLogs[i].id = r.dbGameLogs[j].id => i = j
       /\ (g # 0 /\ r.logsDelivered = Changes(g) /\ r.logsInflight = {}) =>
            r.dbGameLogs = GetGameLogs(g)

\* -------------------------------------------------- reading match_history
\* ORDER BY timestamp DESC: the orders of the rows of match_history (a row is
\* named by its position) in which no row stands before a later one; rows of
\* one timestamp come in whatever order
TimestampOrdersAscending ==
  {p \in [1..Len(match_history) -> 1..Len(match_history)] :
     /\ \A i, j \in DOMAIN p : p[i] = p[j] => i = j
     /\ \A i, j \in DOMAIN p :
          i < j => match_history[p[i]].timestamp <= match_history[p[j]].timestamp}

TimestampOrders ==
  {p \in [1..Len(match_history) -> 1..Len(match_history)] :
     /\ \A i, j \in DOMAIN p : p[i] = p[j] => i = j
     /\ \A i, j \in DOMAIN p :
          i < j => match_history[p[i]].timestamp >= match_history[p[j]].timestamp}

\* getMatchHistory(limit) on match_history: the first limit rows of the order p
getMatchHistory(limit, p) ==
  LET n == IF Len(p) < limit THEN Len(p) ELSE limit
  IN [i \in 1..n |-> [id |-> p[i], timestamp |-> match_history[p[i]].timestamp]]

\* loadMatchHistory(limit): setMatchHistory of what getMatchHistory returns
LoadMatchHistory(c, limit, p) ==
  /\ p \in TimestampOrders
  /\ client' = [client EXCEPT ![c].matchHistory = getMatchHistory(limit, p)]
  /\ UNCHANGED <<games, game_participants, player_gifts, game_participant_gifts,
                 game_logs, match_history, now, txn>>

\* the limits that are asked for
Limits == 1..MaxLimit

\* the resolution of a joined game by every client as time passes, and the
\* first player's client reading the history
NextHistory ==
  \/ \E c \in Players, d \in Draws : SpinWheel(c, d)
  \/ \E c \in Players : SpinTimeout(c)
  \/ \E c \in Players : CompleteGameUpdate(c)
  \/ \E c \in Players : CompleteGameHistory(c)
  \/ \E c \in Players : SpinFinish(c)
  \/ Tick
  \/ \E limit \in Limits, p \in TimestampOrders : LoadMatchHistory(1, limit, p)

SpecHistory == InitResolve /\ [][NextHistory]_vars

\* C30: what getMatchHistory(limit) returns has at most limit entries and no
\* entry twice, each entry is no older than the one after it, and every entry
\* of match_history that is left out is no more recent than the ones returned,
\* and is left out only when limit entries are returned
C30_HistoryIsLatestFirst ==
  [][\A limit \in Limits, p \in TimestampOrders :
       LoadMatchHistory(1, limit, p) =>
         LET res == client'[1].matchHistory
         IN /\ Len(res) <= limit
            /\ \A i, j \in 1..Len(res) : res[i].id = res[j].id => i = j
            /\ \A i, j \in 1..Len(res) : i < j => res[i].timestamp >= res[j].timestamp
            /\ \A k \in 1..Len(match_history) :
                 (\A i \in 1..Len(res) : res[i].id # k) =>
                   /\ Len(res) = limit
                   /\ \A i \in 1..Len(res) :
                        res[i].timestamp >= match_history[k].timestamp]_vars

\* a history of two entries of different times, of which the client has read
\* one: the later
C30_LatestOfTwoRead ==
  /\ Len(match_history) = 2
  /\ match_history[1].timestamp < match_history[2].timestamp
  /\ Len(client[1].matchHistory) = 1
  /\ client[1].matchHistory[1].id = 2

\* ------------------------------------------------------------ the countdown
\* The callback of the interval that the countdown effect of the hook starts
\* while gameCountdown is a positive number; otherwise the effect starts nothing.
CountdownEffect(c) ==
  LET r == client[c]
  IN IF r.gameCountdown > 0
     THEN /\ client' = [client EXCEPT ![c] = [r EXCEPT !.gameCountdown = @ - 1]]
          /\ UNCHANGED <<games, game_participants, player_gifts, game_participant_gifts,
                         game_logs, match_history, now, txn>>
     ELSE UNCHANGED vars

\* the auto-spin effect of the wheel: spinWheel() when the countdown is at 0
AutoSpinEffect(c) ==
  LET r == client[c]
  IN IF r.gameCountdown = 0 /\ r.pc = "idle" /\ Len(ActivePlayers(r)) >= 2
     THEN \E d \in Draws : SpinWheel(c, d)
     ELSE UNCHANGED vars

\* what runs without any user: the clock, the effects of the countdown, and
\* the steps that follow a spin once it has started
TimerStep(c) ==
  \/ CountdownEffect(c)
  \/ AutoSpinEffect(c)
  \/ SpinTimeout(c)
  \/ CompleteGameUpdate(c)
  \/ CompleteGameHistory(c)
  \/ SpinFinish(c)
  \/ GameCompletedEvent(c)

NextCountdown ==
  \/ NextResolve
  \/ Tick
  \/ \E c \in Players : CountdownEffect(c)
  \/ \E c \in Players : AutoSpinEffect(c)

\* the joined game with timers that are scheduled fairly and users that are
\* free to act or not
SpecCountdown ==
  /\ InitResolve
  /\ [][NextCountdown]_vars
  /\ WF_vars(Tick)
  /\ \A c \in Players : WF_vars(TimerStep(c))

\* C21: a game that has two participants is eventually completed
C21_QuorumLeadsToCompletion ==
  (\E g \in DOMAIN games : Cardinality(PartsOf(game_participants, g)) >= 2)
    ~> (\E g \in DOMAIN games : games[g].status = "completed")

\* ------------------------------------------------ the interval of the countdown
\* the durations a countdown is started with
Durations == {0, MaxDuration}

\* startGameCountdown(gameId, duration)
StartGameCountdown(c, duration) ==
  /\ client' = [client EXCEPT ![c] = SetGameCountdown(@, duration)]
  /\ UNCHANGED <<games, game_participants, player_gifts, game_participant_gifts,
                 game_logs, match_history, now, txn>>

\* the timer i fires
IntervalTick(c, i) ==
  /\ i \in client[c].intervals
  /\ client' = [client EXCEPT ![c] = SetGameCountdown(@, Decremented(@.gameCountdown))]
  /\ UNCHANGED <<games, game_participants, player_gifts, game_participant_gifts,
                 game_logs, match_history, now, txn>>

\* the games subscription reports the current game completed: among the rest,
\* setGameCountdown(null)
CountdownCleared(c) ==
  /\ client[c].currentGameId # 0
  /\ client' = [client EXCEPT ![c] = SetGameCountdown(@, Null)]
  /\ UNCHANGED <<games, game_participants, player_gifts, game_participant_gifts,
                 game_logs, match_history, now, txn>>

\* getCurrentGame returns the game: setGameCountdown(game.countdown_seconds)
CountdownLoaded(c) ==
  /\ client[c].currentGameId # 0
  /\ client' = [client EXCEPT ![c] =
       SetGameCountdown(@, countdown_seconds(@.currentGameId))]
  /\ UNCHANGED <<games, game_participants, player_gifts, game_participant_gifts,
                 game_logs, match_history, now, txn>>

NextInterval ==
  \/ \E c \in Players, duration \in Durations : StartGameCountdown(c, duration)
  \/ \E c \in Players : \E i \in client[c].intervals : IntervalTick(c, i)
  \/ \E c \in Players : CountdownCleared(c)
  \/ \E c \in Players : CountdownLoaded(c)

SpecInterval == InitResolve /\ [][NextInterval]_vars

\* C37: gameCountdown is null, undefined or a number >= 0; a client has at most
\* one timer that is not cleared, and none while gameCountdown is 0; a timer
\* that fires while gameCountdown is > 0 lowers it by exactly 1
C37_CountdownStepsDownToZero ==
  [][\A c \in Players :
       /\ client'[c].gameCountdown \in {Null, Undefined} \/ client'[c].gameCountdown >= 0
       /\ Cardinality(client'[c].intervals) <= 1
       /\ client'[c].gameCountdown = 0 => client'[c].intervals = {}
       /\ (\E i \in client[c].intervals : IntervalTick(c, i)) =>
            /\ client[c].gameCountdown > 0
            /\ client'[c].gameCountdown = client[c].gameCountdown - 1]_vars

\* a countdown that has run down to its last second, its timer still set
C37_LastSecond ==
  \E c \in Players :
    /\ client[c].gameCountdown = 1
    /\ client[c].intervals = {client[c].countdownIntervalRef}

\* ------------------------------------------------- joining a crowded game
\* the players who are on the wheel already: one fewer than the wheel takes
Others == (NumPlayers + 1)..(NumPlayers + MaxWheelPlayers - 1)

\* A waiting game that the Others have joined one after the other, each with
\* one unit of gift type 1; the clients of Players have loaded it and every
\* player of Players holds InitQty units of every gift type.
InitJoin ==
  /\ games = [x \in {1} |->
       [NewGame(FirstRoll + 1) EXCEPT
          !.total_pot_balance = Cardinality(Others) * base_value(1),
          !.total_players = Cardinality(Others),
          !.countdown_ends_at = CountdownSeconds]]
  /\ game_participants = [k \in {1} \X Others |->
       [id |-> 0 - k[2], player_name |-> k[2], gift_value |-> base_value(1),
        chance_percentage |-> Percentage(base_value(1), Cardinality(Others) * base_value(1)),
        color |-> k[2] - NumPlayers - 1, position |-> k[2] - NumPlayers - 1,
        gifts_array |-> <<1>>]]
  /\ player_gifts = [k \in Players \X Gifts |-> InitQty]
  /\ game_participant_gifts = [k \in {1} \X Others \X {1} |->
       [quantity |-> 1, total_value |-> base_value(1)]]
  /\ game_logs = [i \in 1..Cardinality(Others) |->
       [game_id |-> 1, player_id |-> NumPlayers + i, log_type |-> "join",
        name |-> NumPlayers + i, value |-> base_value(1)]]
  /\ match_history = << >>
  /\ now = 0
  /\ txn = [t \in Txns |-> IdleTxn]
  /\ client = [p \in Players |->
       Entered(NewClient, 1, GameParticipants(game_participants, 1))]

\* confirmGiftSelection with a current game, up to the call of
\* add_gifts_to_game: the wheel must not be full, and the color and the
\* position that are sent are taken from the number of players the client sees
JoinCall(c, t, sel) ==
  LET r == client[c]
      active == ActivePlayers(r)
  IN /\ r.pc = "idle" /\ r.currentGameId # 0
     /\ ~(Len(active) >= MaxWheelPlayers)
     /\ AddGiftsCall(t, r.currentGameId, c, <<sel>>,
          [name |-> c, color |-> Len(active) % MaxWheelPlayers, position |-> Len(active)])

\* the participants subscription makes the client load the participants again
ReloadParticipants(c) ==
  LET r == client[c]
  IN /\ r.currentGameId # 0
     /\ \A t \in Txns : ~Running(t)
     /\ client' = [client EXCEPT ![c] =
          [r EXCEPT !.dbPlayers = GameParticipants(game_participants, r.currentGameId)]]
     /\ UNCHANGED <<games, game_participants, player_gifts, game_participant_gifts,
                    game_logs, match_history, now, txn>>

NextJoin ==
  \/ \E c \in Players, t \in Txns, sel \in HonestSelections : JoinCall(c, t, sel)
  \/ \E t \in Txns : InsertParticipant(t)
  \/ \E t \in Txns : GiftLoop(t)
  \/ \E t \in Txns : UpdateParticipant(t)
  \/ \E t \in Txns : RecalcSelect(t)
  \/ \E t \in Txns : RecalcChances(t)
  \/ \E t \in Txns : RecalcChancesBlocked(t)
  \/ \E t \in Txns : RecalcChancesResume(t)
  \/ \E t \in Txns : RecalcGamesAndCommit(t)
  \/ \E c \in Players : ReloadParticipants(c)

SpecJoin == InitJoin /\ [][NextJoin]_vars

\* C34: no game has more than MaxWheelPlayers participants
C34_AtMostFifteenParticipants ==
  \A g \in DOMAIN games :
    Cardinality(PartsOf(game_participants, g)) <= MaxWheelPlayers

\* C35: no two participants of a game have the same position
C35_PositionsAreDistinct ==
  \A g \in DOMAIN games :
    \A k, l \in PartsOf(game_participants, g) :
      game_participants[k].position = game_participants[l].position => k = l

\* ------------------------------------------------- the spin that starts itself
\* isSpinning: from setIsSpinning(true) of spinWheel to setIsSpinning(false) of
\* its timeout callback, which comes before the callback's getCurrentGame
isSpinning(r) ==
  r.pc \in {"spinning", "complete_update", "complete_history", "winner_log"}

\* The auto-spin effect of the wheel runs spinWheel().  When the last spin of
\* the client has ended and the response of its getCurrentGame(rollNumber + 1)
\* has not arrived, currentGameId and dbPlayers are those of that spin.
AutoSpin(c, d) ==
  LET r == client[c]
      activePlayers == ActivePlayers(r)
      totalValue == TotalValue(activePlayers)
      selectedWinner == SelectedWinner(activePlayers, d)
  IN /\ r.gameCountdown = 0 /\ ~isSpinning(r) /\ Len(activePlayers) >= 2
     /\ r.rollNumber < FirstRoll + MaxSpins
     /\ d < 2 * totalValue \/ (totalValue = 0 /\ d = 0)
     /\ game_logs' = IF r.currentGameId # 0
                     THEN Append(game_logs,
                            [game_id |-> r.currentGameId, player_id |-> 0,
                             log_type |-> "spin", name |-> 0, value |-> 0])
                     ELSE game_logs
     /\ client' = [client EXCEPT ![c] =
          [r EXCEPT !.pc = "spinning",
                    !.spin = [gameId |-> r.currentGameId, rollNumber |-> r.rollNumber,
                              winner |-> selectedWinner.id,
                              winnerChance |-> Percentage(selectedWinner.giftValue, totalValue),
                              totalGiftValue |-> totalValue, participants |-> {},
                              historyError |-> FALSE]]]
     /\ UNCHANGED <<games, game_participants, player_gifts, game_participant_gifts,
                    match_history, now, txn>>

\* the joined game with a countdown that is started on the first player's
\* client, and no user who spins the wheel by hand
NextAutoSpin ==
  \/ \E duration \in Durations : StartGameCountdown(1, duration)
  \/ \E c \in Players : \E i \in client[c].intervals : IntervalTick(c, i)
  \/ \E c \in Players, d \in Draws : AutoSpin(c, d)
  \/ \E c \in Players : SpinTimeout(c)
  \/ \E c \in Players : CompleteGameUpdate(c)
  \/ \E c \in Players : CompleteGameHistory(c)
  \/ \E c \in Players : SpinFinish(c)
  \/ \E c \in Players : GetCurrentGameSelect(c)
  \/ \E c \in Players : GetCurrentGameInsert(c)
  \/ \E c \in Players : GameCompletedEvent(c)

SpecAutoSpin == InitResolve /\ [][NextAutoSpin]_vars

ShareValues == <<10, 20, 70>>

RosterValues ==
  {v \in ListsUpTo(0..MaxValue, MaxRoster) : Len(v) >= 2 /\ SumF(v, DOMAIN v) > 0}
    \cup {ShareValues}

\* twice the values Math.random() * totalValue takes on these wheels
WheelDraws == UNION {0..(2 * SumF(v, DOMAIN v) - 1) : v \in RosterValues}

\* A waiting game that the players 1..Len(v) have joined one after the other,
\* player i at position i - 1 with one gift for which its call passed the
\* totalValue v[i]; every client has loaded the game when it started.
InitDraw ==
  /\ \E v \in RosterValues :
       LET n == Len(v)
           pot == SumF(v, DOMAIN v)
       IN /\ games = [x \in {1} |->
               [NewGame(FirstRoll + 1) EXCEPT !.total_pot_balance = pot,
                                              !.total_players = n,
                                              !.countdown_ends_at = CountdownSeconds]]
          /\ game_participants = [k \in {1} \X (1..n) |->
               [id |-> k[2], player_name |-> k[2], gift_value |-> v[k[2]],
                chance_percentage |-> Percentage(v[k[2]], pot),
                color |-> k[2] - 1, position |-> k[2] - 1, gifts_array |-> <<1>>]]
          /\ game_participant_gifts = [k \in {1} \X (1..n) \X {1} |->
               [quantity |-> 1, total_value |-> v[k[2]]]]
          /\ game_logs = [i \in 1..n |->
               [game_id |-> 1, player_id |-> i, log_type |-> "join",
                name |-> i, value |-> v[i]]]
  /\ player_gifts = [k \in Players \X Gifts |-> 0]
  /\ match_history = << >>
  /\ now = 0
  /\ txn = [t \in Txns |-> IdleTxn]
  /\ \E ord \in [Players -> RowOrders(game_participants, 1)] :
       client = [p \in Players |-> Entered(NewClient, 1, ord[p])]

\* spinWheel up to the timeout
NextDraw ==
  \/ \E c \in Players, d \in WheelDraws : SpinWheel(c, d)
  \/ \E c \in Players : SpinTimeout(c)

SpecDraw == InitDraw /\ [][NextDraw]_vars

\* the first player of list whose cumulative value is at least d / 2
FirstReaching(list, d) ==
  LET i == CHOOSE j \in 1..Len(list) :
             /\ d <= 2 * TotalValue(SubSeq(list, 1, j))
             /\ \A h \in 1..(j - 1) : d > 2 * TotalValue(SubSeq(list, 1, h))
  IN list[i]

\* C17: whenever a client spins a wheel with a positive total on a draw below the
\* total, the selected winner is the first participant of the game, taken in
\* the order of position, whose cumulative value is at least the draw
C17_FirstInPositionOrderWins ==
  [][\A c \in Players, d \in WheelDraws :
       SpinWheel(c, d) =>
         client'[c].spin.winner =
           FirstReaching(GameParticipants(game_participants, client[c].currentGameId), d).id]_vars

C18_LargestShareDrawn ==
  \E c \in Players :
    /\ client[c].pc = "spinning"
    /\ {<<client[c].dbPlayers[i].id, client[c].dbPlayers[i].giftValue>> :
          i \in 1..Len(client[c].dbPlayers)} = {<<i, ShareValues[i]>> : i \in 1..Len(ShareValues)}
    /\ client[c].spin.winner = 3
    /\ client[c].spin.winnerChance = Percentage(70, 100)

\* C18: on every wheel a client can spin, the number of unit intervals of the
\* draw on which a participant is selected equals the participant's value, so
\* its share of a uniform draw is value / pot (10%, 20% and 70% for 10, 20, 70)
C18_DrawIsValueProportional ==
  \A c \in Players :
    LET list == ActivePlayers(client[c])
        total == TotalValue(list)
    IN client[c].pc = "idle" /\ Len(list) >= 2 /\ total > 0 =>
         \A i \in 1..Len(list) :
           Cardinality({k \in 0..(total - 1) :
              ENABLED (SpinWheel(c, 2 * k + 1) /\ client'[c].spin.winner = list[i].id)})
             = list[i].giftValue

\* ------------------------------------------------------------ match history
\* What getMatchHistory returns for the completed game g and loadMatchHistory
\* formats: the games row with its winner and pot, and the rows of
\* game_participants of g, all as they are when the query runs.
HistoryRow(g) ==
  [id |-> g,
   rollNumber |-> games[g].roll_number,
   players |-> {[id |-> k[2], name |-> game_participants[k].player_name,
                 giftValue |-> game_participants[k].gift_value] :
                   k \in PartsOf(game_participants, g)},
   winner |-> games[g].winner_player_id,
   totalPot |-> games[g].total_pot_balance]

GetMatchHistory == {HistoryRow(g) : g \in {h \in DOMAIN games : games[h].status = "completed"}}

\* the entries of match_history for game g
HistoryOf(g) == {i \in 1..Len(match_history) : match_history[i].game_id = g}

\* the games that are open for a round: waiting or counting down
OpenGames == {g \in DOMAIN games : games[g].status \in {"waiting", "counting_down"}}

\* C3: however many clients run the round resolution for a session, the session
\* ends with exactly one entry in match_history.
C3_OneHistoryEntryPerSession ==
  \A g \in DOMAIN games : Cardinality(HistoryOf(g)) <= 1

\* C4: once winner_player_id of a session is set, no step changes it.
C4_WinnerNeverChanges ==
  [][\A g \in DOMAIN games :
       games[g].winner_player_id # 0 =>
         games'[g].winner_player_id = games[g].winner_player_id]_vars

\* C5: at most one session is open (waiting or counting down) in every
\* reachable state.
C5_AtMostOneOpenSession == Cardinality(OpenGames) <= 1

\* ------------------------------------------------------------- properties
AllDone == \A t \in Txns : ~Running(t)

Committed(t) == txn[t].pc = "done" /\ txn[t].result = "committed"

Failed(t) == txn[t].pc = "done" /\ txn[t].result = "failed"

RECURSIVE SumSeq(_)
SumSeq(q) == IF q = << >> THEN 0 ELSE Head(q).totalValue + SumSeq(Tail(q))

\* the sum of gift_value over the participants of g
ParticipantsValue(g) ==
  LET ks == PartsOf(game_participants, g)
  IN SumF([k \in ks |-> game_participants[k].gift_value], ks)

\* the sum of total_value over the contributions recorded for g
ContributionsValue(g) ==
  LET ks == {k \in DOMAIN game_participant_gifts : k[1] = g}
  IN SumF([k \in ks |-> game_participant_gifts[k].total_value], ks)

\* the units of gift type gift that player p has contributed, over all sessions
Contributed(p, gift) ==
  LET ks == {k \in DOMAIN game_participant_gifts : k[2] = p /\ k[3] = gift}
  IN SumF([k \in ks |-> game_participant_gifts[k].quantity], ks)

\* the units recorded as contributed by participant <<g, p>>
ParticipantUnits(g, p) ==
  LET ks == {k \in DOMAIN game_participant_gifts : k[1] = g /\ k[2] = p}
  IN SumF([k \in ks |-> game_participant_gifts[k].quantity], ks)

\* the units of gift type gift that player p holds
Held(p, gift) == IF <<p, gift>> \in DOMAIN player_gifts THEN player_gifts[<<p, gift>>] ELSE 0

\* C1: once every add_gifts_to_game call has finished, total_pot_balance of the
\* session equals the sum of the values of the accepted contributions and the
\* sum of gift_value over its participants.
C1_PotIsSumOfContributions ==
  AllDone =>
    \A g \in DOMAIN games :
      /\ games[g].total_pot_balance = ContributionsValue(g)
      /\ games[g].total_pot_balance = ParticipantsValue(g)

\* C2: after two calls of one player on one session that were in progress at the
\* same time have both committed, the participant's gift_value is the value it
\* had before plus the values of both submissions, and gifts_array has grown by
\* the units of both.
C2_SamePlayerNoLostUpdate ==
  \A t, u \in Txns :
    (/\ t # u /\ Committed(t) /\ Committed(u)
     /\ t \in txn[u].overlaps
     /\ txn[t].g = txn[u].g /\ txn[t].p = txn[u].p
     /\ txn[t].prior = txn[u].prior)
    => LET row == game_participants[<<txn[t].g, txn[t].p>>]
       IN /\ row.gift_value = txn[t].prior + SumSeq(txn[t].sels) + SumSeq(txn[u].sels)
          /\ Len(row.gifts_array) = ParticipantUnits(txn[t].g, txn[t].p)

\* C6: a call that arrives when the session is no longer open for joins (its
\* deadline has passed, or its status has left waiting) is rejected.
C6_ClosedSessionRejects ==
  \A t \in Txns : (txn[t].pc = "done" /\ txn[t].closed_at_call) => Failed(t)

\* C7: a call with a selection that asks for more units than the player holds
\* (or of a gift type the player holds no row of) fails, and no inventory
\* quantity is ever negative.
C7_InsufficientInventoryFails ==
  /\ \A t \in Txns : txn[t].short => ~Committed(t)
  /\ \A k \in DOMAIN player_gifts : player_gifts[k] >= 0

\* C8: no step changes, for any player and gift type, the units held plus the
\* units contributed over all sessions.
C8_InventoryConserved ==
  [][\A p \in Players, gift \in Gifts :
       Held(p, gift)' + Contributed(p, gift)' = Held(p, gift) + Contributed(p, gift)]_vars

RECURSIVE ProdF(_, _)
ProdF(f, S) == IF S = {} THEN 1
               ELSE LET x == CHOOSE y \in S : TRUE IN f[x] * ProdF(f, S \ {x})

\* the chance_percentage of the participants of g sum to exactly 100
ChancesSumTo100(g) ==
  LET ks == PartsOf(game_participants, g)
      den == [k \in ks |-> game_participants[k].chance_percentage.den]
      all == ProdF(den, ks)
  IN SumF([k \in ks |-> game_participants[k].chance_percentage.num * (all \div den[k])], ks)
       = 100 * all

\* C9: while no call is in progress, chance_percentage of every participant is
\* 100 * gift_value / total_pot_balance of its session (0 when the pot is 0),
\* and the chances of a session with a positive pot sum to 100.
C9_ChancesMatchPot ==
  AllDone =>
    \A g \in DOMAIN games :
      /\ \A k \in PartsOf(game_participants, g) :
           game_participants[k].chance_percentage =
             Percentage(game_participants[k].gift_value, games[g].total_pot_balance)
      /\ games[g].total_pot_balance > 0 => ChancesSumTo100(g)

\* C10: a participant row, once there, stays the one row of its (session,
\* player) pair, and no step changes its player_name, color or position.
C10_JoinDataPersists ==
  [][\A k \in DOMAIN game_participants :
       /\ k \in DOMAIN game_participants'
       /\ game_participants'[k].id = game_participants[k].id
       /\ game_participants'[k].player_name = game_participants[k].player_name
       /\ game_participants'[k].color = game_participants[k].color
       /\ game_participants'[k].position = game_participants[k].position]_vars

\* a repeat call that passed another name than the first join has committed
C10_RepeatJoinCommitted ==
  \E i \in 1..Len(game_logs) :
    LET k == <<game_logs[i].game_id, game_logs[i].player_id>>
    IN /\ k \in DOMAIN game_participants
       /\ game_logs[i].name # game_participants[k].player_name
       /\ game_participants[k].gift_value > base_value(1)

\* a call found the deadline of its session set and passed, and committed
C11_LateJoinCommitted ==
  \E t \in Txns :
    /\ Committed(t) /\ txn[t].closed_at_call
    /\ games[txn[t].g].countdown_ends_at # 0

\* C11: once countdown_ends_at of a session is set, no step of any
\* add_gifts_to_game call changes it.
C11_DeadlineNeverChanges ==
  [][\A g \in DOMAIN games :
       games[g].countdown_ends_at # 0 =>
         games'[g].countdown_ends_at = games[g].countdown_ends_at]_vars

\* C12: the step that brings the participants of a session to two for the
\* first time leaves the session in status counting_down with its deadline set.
C12_QuorumStartsCountdown ==
  [][\A g \in DOMAIN games :
       (/\ Cardinality(PartsOf(game_participants, g)) < 2
        /\ Cardinality(PartsOf(game_participants', g)) >= 2)
       => /\ games'[g].status = "counting_down"
          /\ games'[g].countdown_ends_at # 0]_vars

\* two calls of different players on a session with fewer than two participants
\* that were in progress at the same time, and at the same time as no other call
CrossedQuorumTogether(t, u) ==
  /\ t # u
  /\ txn[t].pc = "done" /\ txn[u].pc = "done"
  /\ txn[u].overlaps = {t} /\ txn[t].overlaps = {}
  /\ \A w \in Txns \ {t, u} : txn[w].overlaps \cap {t, u} = {}
  /\ txn[t].g = txn[u].g /\ txn[t].p # txn[u].p
  /\ txn[t].joined_at_call < 2 /\ txn[u].joined_at_call < 2

\* two new players joined an empty session at the same time and both committed
C13_BothJoinedConcurrently ==
  \E t, u \in Txns :
    /\ CrossedQuorumTogether(t, u)
    /\ Committed(t) /\ Committed(u)
    /\ txn[t].joined_at_call = 0
    /\ Cardinality(PartsOf(game_participants, txn[t].g)) = 2

\* C13: when two calls of different players that ran at the same time on a
\* session with fewer than two participants have finished, both have committed
\* and the deadline of the session is set.
C13_ConcurrentQuorumSetsDeadline ==
  \A t, u \in Txns :
    CrossedQuorumTogether(t, u) =>
      /\ Committed(t) /\ Committed(u)
      /\ games[txn[t].g].countdown_ends_at # 0

\* the changes of status that the session state machine allows
StatusSteps ==
  {<<"waiting", "counting_down">>, <<"counting_down", "drawing">>, <<"drawing", "completed">>}

\* C14: every change of the status of a session is waiting -> counting_down,
\* counting_down -> drawing or drawing -> completed.
C14_StatusStepsInOrder ==
  [][\A g \in DOMAIN games :
       games'[g].status # games[g].status =>
         <<games[g].status, games'[g].status>> \in StatusSteps]_vars

\* C15: in every reachable state every completed session has an entry in
\* match_history.
C15_CompletedHasHistory ==
  \A g \in DOMAIN games : games[g].status = "completed" => HistoryOf(g) # {}

\* C16: the winner that completeGame writes to the session and to its history
\* entry is the player the draw of that client selected, and that player is a
\* participant of the session.
C16_StoredWinnerIsDrawnWinner ==
  [][\A c \in Players :
       LET g == client[c].spin.gameId
       IN /\ (client[c].pc = "complete_update" /\ client'[c].pc = "complete_history")
             => /\ games'[g].winner_player_id = client[c].spin.winner
                /\ <<g, games'[g].winner_player_id>> \in DOMAIN game_participants
          /\ (client[c].pc = "complete_history" /\ Len(match_history') > Len(match_history))
             => match_history'[Len(match_history')].winner_player_id = client[c].spin.winner]_vars


\* C19: once a completed game has its entry in match_history, what
\* getMatchHistory returns for it (winner, pot and roster) never changes
C19_HistoryReadIsFrozen ==
  [][\A g \in DOMAIN games :
       games[g].status = "completed" /\ HistoryOf(g) # {} =>
         HistoryRow(g)' = HistoryRow(g)]_vars

\* the sum of the values of a players_snapshot
SnapshotValue(snapshot) == SumF([x \in snapshot |-> x[2]], snapshot)

\* C20: in every entry of match_history total_pot is the sum of the values of
\* players_snapshot, and winner_chance is 100 * the snapshot value of the
\* entry's winner / that sum
C20_HistoryEntryConsistent ==
  \A i \in 1..Len(match_history) :
    LET e == match_history[i]
        pot == SnapshotValue(e.players_snapshot)
    IN /\ e.total_pot = pot
       /\ \E x \in e.players_snapshot :
            x[1] = e.winner_player_id /\ e.winner_chance = Percentage(x[2], pot)

\* C22: a game with fewer than two participants is waiting, has no deadline,
\* and no spin or winner was logged for it
C22_BelowQuorumStaysWaiting ==
  \A g \in DOMAIN games :
    Cardinality(PartsOf(game_participants, g)) < 2 =>
      /\ games[g].status = "waiting"
      /\ games[g].countdown_ends_at = 0
      /\ \A i \in 1..Len(game_logs) :
           game_logs[i].game_id = g => game_logs[i].log_type = "join"

\* C23: a call with an empty p_gift_selections ends as failed, and the step
\* that ends it changes no game, no participant and no log
C23_EmptyListRejected ==
  [][\A t \in Txns :
       (txn[t].pc # "idle" /\ txn[t].pc # "done" /\ txn[t].sels = << >> /\ txn'[t].pc = "done") =>
         /\ txn'[t].result = "failed"
         /\ UNCHANGED <<games, game_participants, game_logs>>]_vars

\* C24: no step raises a quantity of the inventory, every recorded contribution
\* has a quantity of at least 1, and no call with a quantity below 1 commits
C24_QuantityAtLeastOne ==
  [][/\ \A k \in DOMAIN player_gifts : player_gifts'[k] <= player_gifts[k]
     /\ \A k \in DOMAIN game_participant_gifts' : game_participant_gifts'[k].quantity >= 1
     /\ \A t \in Txns :
          (txn'[t].pc = "done" /\ txn'[t].result = "committed") =>
            \A i \in 1..Len(txn'[t].sels) : txn'[t].sels[i].quantity >= 1]_vars

\* the value of the units of a list of selections at the prices of gifts
RECURSIVE UnitsValue(_)
UnitsValue(sels) ==
  IF sels = << >> THEN 0
  ELSE Head(sels).quantity * base_value(Head(sels).giftId) + UnitsValue(Tail(sels))

\* C25: the step that commits a call whose quantities are all at least 1
\* raises the participant's gift_value and the pot of the game by
\* quantity * base_value, summed over the selections
C25_ValueIsQuantityTimesPrice ==
  [][\A t \in Txns :
       (/\ txn[t].pc # "done" /\ txn'[t].pc = "done" /\ txn'[t].result = "committed"
        /\ \A i \in 1..Len(txn[t].sels) : txn[t].sels[i].quantity >= 1) =>
         LET g == txn[t].g
             k == <<g, txn[t].p>>
         IN /\ game_participants'[k].gift_value = txn[t].prior + UnitsValue(txn[t].sels)
            /\ games'[g].total_pot_balance =
                 games[g].total_pot_balance + UnitsValue(txn[t].sels)]_vars

\* C26: a client whose completeGame has thrown logs no winner and does not
\* advance its round number
C26_FailedCompletionNotAnnounced ==
  [][\A c \in Players :
       client[c].spin.historyError =>
         /\ client'[c].rollNumber = client[c].rollNumber
         /\ ~(/\ Len(game_logs') > Len(game_logs)
              /\ game_logs'[Len(game_logs')].log_type = "winner"
              /\ game_logs'[Len(game_logs')].player_id = c)]_vars

\* C29: every call of getCurrentGame that finds no waiting game creates one,
\* and the roll number of the new game is greater than that of every game
\* that exists
C29_NewRoundNumberIsGreatest ==
  [][\A c \in Players :
       (client[c].pc = "next_insert" /\ client'[c].pc = "idle") =>
         /\ Cardinality(DOMAIN games') = Cardinality(DOMAIN games) + 1
         /\ \A n \in DOMAIN games' \ DOMAIN games, g \in DOMAIN games :
              games'[n].roll_number > games[g].roll_number]_vars

\* C31: getCurrentGame(0) leaves games as it is and ends with the latest waiting
\* game as the current game, or with none when no game is waiting; a game is
\* added only by the insert of a call with a roll number > 0, and a call goes
\* on to the insert only when its select found no waiting game
C31_LoadNeverCreates ==
  [][\A c \in Players :
       /\ (/\ client[c].pc = "idle" /\ client[c].load
           /\ (~client'[c].load \/ client'[c].pc = "load_insert")) =>
             /\ games' = games
             /\ client'[c].pc = "idle"
             /\ client'[c].currentGameId =
                  IF WaitingGames # {} THEN LatestWaiting ELSE 0
       /\ (client[c].pc # "next_insert" /\ client'[c].pc = "next_insert") =>
             WaitingGames = {}
       /\ (client[c].pc # client'[c].pc /\ DOMAIN games' # DOMAIN games) =>
             /\ client[c].pc = "next_insert"
             /\ client[c].spin.rollNumber + 1 > 0
             /\ \A g \in DOMAIN games' \ DOMAIN games :
                  games'[g].roll_number = client[c].spin.rollNumber + 1]_vars

\* a client that has not spun yet has loaded, with getCurrentGame(0), the game
\* that another client created at the end of its spin
C31_LoadedExistingGame ==
  \E c, d \in Players :
    /\ client[c].rollNumber = FirstRoll /\ client[c].currentGameId # 0
    /\ client[c].pc = "idle" /\ ~client[c].load
    /\ client[d].rollNumber > FirstRoll
    /\ games[client[c].currentGameId].roll_number = FirstRoll + 1

\* C33: a client goes into a spin only from a state in which its active
\* players are two or more and it is not spinning, and only a client that has
\* gone into a spin draws a winner or completes a game
C33_SpinNeedsTwoAndNoSpin ==
  [][\A c \in Players :
       /\ (client[c].pc # "spinning" /\ client'[c].pc = "spinning") =>
            /\ Len(ActivePlayers(client[c])) >= 2
            /\ ~isSpinning(client[c])
       /\ client'[c].spin.winner # client[c].spin.winner =>
            \/ client[c].pc # "spinning" /\ client'[c].pc = "spinning"
            \/ client'[c].spin = NoSpin
       /\ (\E g \in DOMAIN games :
              /\ games[g].status # "completed" /\ games'[g].status = "completed"
              /\ games'[g].winner_player_id = c) =>
            isSpinning(client[c]) /\ client[c].spin.gameId # 0]_vars

\* a client in a spin that it started with two players on its wheel
C33_SpinningWithTwo ==
  \E c \in Players :
    /\ client[c].pc = "spinning"
    /\ Len(ActivePlayers(client[c])) = 2
    /\ client[c].spin.winner \in Players

\* C36: on every draw of spinWheel that is at least 0 and below the total, the
\* player that is selected has a value above 0
C36_ZeroValueNeverWins ==
  [][\A c \in Players, d \in WheelDraws :
       SpinWheel(c, d) =>
         \A i \in 1..Len(ActivePlayers(client[c])) :
           ActivePlayers(client[c])[i].id = client'[c].spin.winner =>
             ActivePlayers(client[c])[i].giftValue > 0]_vars

====
